---- MODULE Spec2Model ----
(***************************************************************************)
(* Risk matrix: the web API (risk_matrix_api.py) and the console program   *)
(* (feng_xian_ju_zhen.py).                                                 *)
(*                                                                         *)
(* A Python str is a sequence of characters.  ASCII characters are the     *)
(* one-character strings; a Chinese character is written as its pinyin     *)
(* syllable, so the name ji-shao-fa-sheng is a str of four characters.     *)
(* A Python dict is the sequence of its items in insertion order.          *)
(***************************************************************************)
EXTENDS Integers, Sequences, FiniteSets, Bags, TLC

VARIABLES current_risk_model, resp, uploading,
          probability, severity, pc, lines, prob, sev, printed,
          task, history, configured

vars == <<current_risk_model, resp, uploading, probability, severity, pc, lines,
          prob, sev, printed, task, history, configured>>

apiVars == <<current_risk_model, resp, uploading>>
consoleVars == <<probability, severity, pc, lines, prob, sev, printed>>
concVars == <<task, history, configured>>

(***************************************************************************)
(* Bounds of the model.                                                    *)
(***************************************************************************)
MaxRows == 3
MaxLines == 4
MaxConfigures == 2
MaxUploads == 2

(***************************************************************************)
(* str, and the str methods the code uses.                                 *)
(***************************************************************************)
UpperCase == <<"A", "B", "C", "D", "E", "F", "G", "H", "I", "J", "K", "L", "M",
               "N", "O", "P", "Q", "R", "S", "T", "U", "V", "W", "X", "Y", "Z">>
LowerCase == <<"a", "b", "c", "d", "e", "f", "g", "h", "i", "j", "k", "l", "m",
               "n", "o", "p", "q", "r", "s", "t", "u", "v", "w", "x", "y", "z">>
Digits == <<"0", "1", "2", "3", "4", "5", "6", "7", "8", "9">>

(***************************************************************************)
(* Characters that a string of this module cannot hold are written by      *)
(* their names: VT is U+000B, FS, GS, RS and US are U+001C to U+001F, NEL  *)
(* is U+0085, NBSP is U+00A0, and so on.                                   *)
(***************************************************************************)
\* the whitespace of C's isspace
AsciiSpace == {" ", "\t", "\n", "\r", "\f", "VT"}

\* the separators U+001C to U+001F: whitespace for str, not for int()
Separators == {"FS", "GS", "RS", "US"}

\* the whitespace beyond ASCII
UnicodeSpace ==
    {"NEL", "NBSP", "OGHAM_SPACE_MARK", "EN_QUAD", "EM_QUAD", "EN_SPACE",
     "EM_SPACE", "THREE_PER_EM_SPACE", "FOUR_PER_EM_SPACE", "SIX_PER_EM_SPACE",
     "FIGURE_SPACE", "PUNCTUATION_SPACE", "THIN_SPACE", "HAIR_SPACE",
     "LINE_SEPARATOR", "PARAGRAPH_SEPARATOR", "NARROW_NBSP",
     "MEDIUM_MATHEMATICAL_SPACE", "IDEOGRAPHIC_SPACE"}

\* the characters str.strip() drops: those of str.isspace()
Whitespace == AsciiSpace \cup Separators \cup UnicodeSpace

\* the characters int() drops around the number
IntWhitespace == AsciiSpace \cup UnicodeSpace

\* the decimal digits of every script, ten to a script and in the order of
\* their values: the ASCII digits first, the others by their names
DecimalDigits ==
    <<
      <<"0", "1", "2", "3", "4", "5", "6", "7", "8", "9">>,
      <<"ARABIC_INDIC_DIGIT_ZERO", "ARABIC_INDIC_DIGIT_ONE",
        "ARABIC_INDIC_DIGIT_TWO", "ARABIC_INDIC_DIGIT_THREE",
        "ARABIC_INDIC_DIGIT_FOUR", "ARABIC_INDIC_DIGIT_FIVE",
        "ARABIC_INDIC_DIGIT_SIX", "ARABIC_INDIC_DIGIT_SEVEN",
        "ARABIC_INDIC_DIGIT_EIGHT", "ARABIC_INDIC_DIGIT_NINE">>,
      <<"EXTENDED_ARABIC_INDIC_DIGIT_ZERO",
        "EXTENDED_ARABIC_INDIC_DIGIT_ONE", "EXTENDED_ARABIC_INDIC_DIGIT_TWO",
        "EXTENDED_ARABIC_INDIC_DIGIT_THREE",
        "EXTENDED_ARABIC_INDIC_DIGIT_FOUR",
        "EXTENDED_ARABIC_INDIC_DIGIT_FIVE",
        "EXTENDED_ARABIC_INDIC_DIGIT_SIX",
        "EXTENDED_ARABIC_INDIC_DIGIT_SEVEN",
        "EXTENDED_ARABIC_INDIC_DIGIT_EIGHT",
        "EXTENDED_ARABIC_INDIC_DIGIT_NINE">>,
      <<"NKO_DIGIT_ZERO", "NKO_DIGIT_ONE", "NKO_DIGIT_TWO",
        "NKO_DIGIT_THREE", "NKO_DIGIT_FOUR", "NKO_DIGIT_FIVE",
        "NKO_DIGIT_SIX", "NKO_DIGIT_SEVEN", "NKO_DIGIT_EIGHT",
        "NKO_DIGIT_NINE">>,
      <<"DEVANAGARI_DIGIT_ZERO", "DEVANAGARI_DIGIT_ONE",
        "DEVANAGARI_DIGIT_TWO", "DEVANAGARI_DIGIT_THREE",
        "DEVANAGARI_DIGIT_FOUR", "DEVANAGARI_DIGIT_FIVE",
        "DEVANAGARI_DIGIT_SIX", "DEVANAGARI_DIGIT_SEVEN",
        "DEVANAGARI_DIGIT_EIGHT", "DEVANAGARI_DIGIT_NINE">>,
      <<"BENGALI_DIGIT_ZERO", "BENGALI_DIGIT_ONE", "BENGALI_DIGIT_TWO",
        "BENGALI_DIGIT_THREE", "BENGALI_DIGIT_FOUR", "BENGALI_DIGIT_FIVE",
        "BENGALI_DIGIT_SIX", "BENGALI_DIGIT_SEVEN", "BENGALI_DIGIT_EIGHT",
        "BENGALI_DIGIT_NINE">>,
      <<"GURMUKHI_DIGIT_ZERO", "GURMUKHI_DIGIT_ONE", "GURMUKHI_DIGIT_TWO",
        "GURMUKHI_DIGIT_THREE", "GURMUKHI_DIGIT_FOUR", "GURMUKHI_DIGIT_FIVE",
        "GURMUKHI_DIGIT_SIX", "GURMUKHI_DIGIT_SEVEN", "GURMUKHI_DIGIT_EIGHT",
        "GURMUKHI_DIGIT_NINE">>,
      <<"GUJARATI_DIGIT_ZERO", "GUJARATI_DIGIT_ONE", "GUJARATI_DIGIT_TWO",
        "GUJARATI_DIGIT_THREE", "GUJARATI_DIGIT_FOUR", "GUJARATI_DIGIT_FIVE",
        "GUJARATI_DIGIT_SIX", "GUJARATI_DIGIT_SEVEN", "GUJARATI_DIGIT_EIGHT",
        "GUJARATI_DIGIT_NINE">>,
      <<"ORIYA_DIGIT_ZERO", "ORIYA_DIGIT_ONE", "ORIYA_DIGIT_TWO",
        "ORIYA_DIGIT_THREE", "ORIYA_DIGIT_FOUR", "ORIYA_DIGIT_FIVE",
        "ORIYA_DIGIT_SIX", "ORIYA_DIGIT_SEVEN", "ORIYA_DIGIT_EIGHT",
        "ORIYA_DIGIT_NINE">>,
      <<"TAMIL_DIGIT_ZERO", "TAMIL_DIGIT_ONE", "TAMIL_DIGIT_TWO",
        "TAMIL_DIGIT_THREE", "TAMIL_DIGIT_FOUR", "TAMIL_DIGIT_FIVE",
        "TAMIL_DIGIT_SIX", "TAMIL_DIGIT_SEVEN", "TAMIL_DIGIT_EIGHT",
        "TAMIL_DIGIT_NINE">>,
      <<"TELUGU_DIGIT_ZERO", "TELUGU_DIGIT_ONE", "TELUGU_DIGIT_TWO",
        "TELUGU_DIGIT_THREE", "TELUGU_DIGIT_FOUR", "TELUGU_DIGIT_FIVE",
        "TELUGU_DIGIT_SIX", "TELUGU_DIGIT_SEVEN", "TELUGU_DIGIT_EIGHT",
        "TELUGU_DIGIT_NINE">>,
      <<"KANNADA_DIGIT_ZERO", "KANNADA_DIGIT_ONE", "KANNADA_DIGIT_TWO",
        "KANNADA_DIGIT_THREE", "KANNADA_DIGIT_FOUR", "KANNADA_DIGIT_FIVE",
        "KANNADA_DIGIT_SIX", "KANNADA_DIGIT_SEVEN", "KANNADA_DIGIT_EIGHT",
        "KANNADA_DIGIT_NINE">>,
      <<"MALAYALAM_DIGIT_ZERO", "MALAYALAM_DIGIT_ONE", "MALAYALAM_DIGIT_TWO",
        "MALAYALAM_DIGIT_THREE", "MALAYALAM_DIGIT_FOUR",
        "MALAYALAM_DIGIT_FIVE", "MALAYALAM_DIGIT_SIX",
        "MALAYALAM_DIGIT_SEVEN", "MALAYALAM_DIGIT_EIGHT",
        "MALAYALAM_DIGIT_NINE">>,
      <<"SINHALA_LITH_DIGIT_ZERO", "SINHALA_LITH_DIGIT_ONE",
        "SINHALA_LITH_DIGIT_TWO", "SINHALA_LITH_DIGIT_THREE",
        "SINHALA_LITH_DIGIT_FOUR", "SINHALA_LITH_DIGIT_FIVE",
        "SINHALA_LITH_DIGIT_SIX", "SINHALA_LITH_DIGIT_SEVEN",
        "SINHALA_LITH_DIGIT_EIGHT", "SINHALA_LITH_DIGIT_NINE">>,
      <<"THAI_DIGIT_ZERO", "THAI_DIGIT_ONE", "THAI_DIGIT_TWO",
        "THAI_DIGIT_THREE", "THAI_DIGIT_FOUR", "THAI_DIGIT_FIVE",
        "THAI_DIGIT_SIX", "THAI_DIGIT_SEVEN", "THAI_DIGIT_EIGHT",
        "THAI_DIGIT_NINE">>,
      <<"LAO_DIGIT_ZERO", "LAO_DIGIT_ONE", "LAO_DIGIT_TWO",
        "LAO_DIGIT_THREE", "LAO_DIGIT_FOUR", "LAO_DIGIT_FIVE",
        "LAO_DIGIT_SIX", "LAO_DIGIT_SEVEN", "LAO_DIGIT_EIGHT",
        "LAO_DIGIT_NINE">>,
      <<"TIBETAN_DIGIT_ZERO", "TIBETAN_DIGIT_ONE", "TIBETAN_DIGIT_TWO",
        "TIBETAN_DIGIT_THREE", "TIBETAN_DIGIT_FOUR", "TIBETAN_DIGIT_FIVE",
        "TIBETAN_DIGIT_SIX", "TIBETAN_DIGIT_SEVEN", "TIBETAN_DIGIT_EIGHT",
        "TIBETAN_DIGIT_NINE">>,
      <<"MYANMAR_DIGIT_ZERO", "MYANMAR_DIGIT_ONE", "MYANMAR_DIGIT_TWO",
        "MYANMAR_DIGIT_THREE", "MYANMAR_DIGIT_FOUR", "MYANMAR_DIGIT_FIVE",
        "MYANMAR_DIGIT_SIX", "MYANMAR_DIGIT_SEVEN", "MYANMAR_DIGIT_EIGHT",
        "MYANMAR_DIGIT_NINE">>,
      <<"MYANMAR_SHAN_DIGIT_ZERO", "MYANMAR_SHAN_DIGIT_ONE",
        "MYANMAR_SHAN_DIGIT_TWO", "MYANMAR_SHAN_DIGIT_THREE",
        "MYANMAR_SHAN_DIGIT_FOUR", "MYANMAR_SHAN_DIGIT_FIVE",
        "MYANMAR_SHAN_DIGIT_SIX", "MYANMAR_SHAN_DIGIT_SEVEN",
        "MYANMAR_SHAN_DIGIT_EIGHT", "MYANMAR_SHAN_DIGIT_NINE">>,
      <<"KHMER_DIGIT_ZERO", "KHMER_DIGIT_ONE", "KHMER_DIGIT_TWO",
        "KHMER_DIGIT_THREE", "KHMER_DIGIT_FOUR", "KHMER_DIGIT_FIVE",
        "KHMER_DIGIT_SIX", "KHMER_DIGIT_SEVEN", "KHMER_DIGIT_EIGHT",
        "KHMER_DIGIT_NINE">>,
      <<"MONGOLIAN_DIGIT_ZERO", "MONGOLIAN_DIGIT_ONE", "MONGOLIAN_DIGIT_TWO",
        "MONGOLIAN_DIGIT_THREE", "MONGOLIAN_DIGIT_FOUR",
        "MONGOLIAN_DIGIT_FIVE", "MONGOLIAN_DIGIT_SIX",
        "MONGOLIAN_DIGIT_SEVEN", "MONGOLIAN_DIGIT_EIGHT",
        "MONGOLIAN_DIGIT_NINE">>,
      <<"LIMBU_DIGIT_ZERO", "LIMBU_DIGIT_ONE", "LIMBU_DIGIT_TWO",
        "LIMBU_DIGIT_THREE", "LIMBU_DIGIT_FOUR", "LIMBU_DIGIT_FIVE",
        "LIMBU_DIGIT_SIX", "LIMBU_DIGIT_SEVEN", "LIMBU_DIGIT_EIGHT",
        "LIMBU_DIGIT_NINE">>,
      <<"NEW_TAI_LUE_DIGIT_ZERO", "NEW_TAI_LUE_DIGIT_ONE",
        "NEW_TAI_LUE_DIGIT_TWO", "NEW_TAI_LUE_DIGIT_THREE",
        "NEW_TAI_LUE_DIGIT_FOUR", "NEW_TAI_LUE_DIGIT_FIVE",
        "NEW_TAI_LUE_DIGIT_SIX", "NEW_TAI_LUE_DIGIT_SEVEN",
        "NEW_TAI_LUE_DIGIT_EIGHT", "NEW_TAI_LUE_DIGIT_NINE">>,
      <<"TAI_THAM_HORA_DIGIT_ZERO", "TAI_THAM_HORA_DIGIT_ONE",
        "TAI_THAM_HORA_DIGIT_TWO", "TAI_THAM_HORA_DIGIT_THREE",
        "TAI_THAM_HORA_DIGIT_FOUR", "TAI_THAM_HORA_DIGIT_FIVE",
        "TAI_THAM_HORA_DIGIT_SIX", "TAI_THAM_HORA_DIGIT_SEVEN",
        "TAI_THAM_HORA_DIGIT_EIGHT", "TAI_THAM_HORA_DIGIT_NINE">>,
      <<"TAI_THAM_THAM_DIGIT_ZERO", "TAI_THAM_THAM_DIGIT_ONE",
        "TAI_THAM_THAM_DIGIT_TWO", "TAI_THAM_THAM_DIGIT_THREE",
        "TAI_THAM_THAM_DIGIT_FOUR", "TAI_THAM_THAM_DIGIT_FIVE",
        "TAI_THAM_THAM_DIGIT_SIX", "TAI_THAM_THAM_DIGIT_SEVEN",
        "TAI_THAM_THAM_DIGIT_EIGHT", "TAI_THAM_THAM_DIGIT_NINE">>,
      <<"BALINESE_DIGIT_ZERO", "BALINESE_DIGIT_ONE", "BALINESE_DIGIT_TWO",
        "BALINESE_DIGIT_THREE", "BALINESE_DIGIT_FOUR", "BALINESE_DIGIT_FIVE",
        "BALINESE_DIGIT_SIX", "BALINESE_DIGIT_SEVEN", "BALINESE_DIGIT_EIGHT",
        "BALINESE_DIGIT_NINE">>,
      <<"SUNDANESE_DIGIT_ZERO", "SUNDANESE_DIGIT_ONE", "SUNDANESE_DIGIT_TWO",
        "SUNDANESE_DIGIT_THREE", "SUNDANESE_DIGIT_FOUR",
        "SUNDANESE_DIGIT_FIVE", "SUNDANESE_DIGIT_SIX",
        "SUNDANESE_DIGIT_SEVEN", "SUNDANESE_DIGIT_EIGHT",
        "SUNDANESE_DIGIT_NINE">>,
      <<"LEPCHA_DIGIT_ZERO", "LEPCHA_DIGIT_ONE", "LEPCHA_DIGIT_TWO",
        "LEPCHA_DIGIT_THREE", "LEPCHA_DIGIT_FOUR", "LEPCHA_DIGIT_FIVE",
        "LEPCHA_DIGIT_SIX", "LEPCHA_DIGIT_SEVEN", "LEPCHA_DIGIT_EIGHT",
        "LEPCHA_DIGIT_NINE">>,
      <<"OL_CHIKI_DIGIT_ZERO", "OL_CHIKI_DIGIT_ONE", "OL_CHIKI_DIGIT_TWO",
        "OL_CHIKI_DIGIT_THREE", "OL_CHIKI_DIGIT_FOUR", "OL_CHIKI_DIGIT_FIVE",
        "OL_CHIKI_DIGIT_SIX", "OL_CHIKI_DIGIT_SEVEN", "OL_CHIKI_DIGIT_EIGHT",
        "OL_CHIKI_DIGIT_NINE">>,
      <<"VAI_DIGIT_ZERO", "VAI_DIGIT_ONE", "VAI_DIGIT_TWO",
        "VAI_DIGIT_THREE", "VAI_DIGIT_FOUR", "VAI_DIGIT_FIVE",
        "VAI_DIGIT_SIX", "VAI_DIGIT_SEVEN", "VAI_DIGIT_EIGHT",
        "VAI_DIGIT_NINE">>,
      <<"SAURASHTRA_DIGIT_ZERO", "SAURASHTRA_DIGIT_ONE",
        "SAURASHTRA_DIGIT_TWO", "SAURASHTRA_DIGIT_THREE",
        "SAURASHTRA_DIGIT_FOUR", "SAURASHTRA_DIGIT_FIVE",
        "SAURASHTRA_DIGIT_SIX", "SAURASHTRA_DIGIT_SEVEN",
        "SAURASHTRA_DIGIT_EIGHT", "SAURASHTRA_DIGIT_NINE">>,
      <<"KAYAH_LI_DIGIT_ZERO", "KAYAH_LI_DIGIT_ONE", "KAYAH_LI_DIGIT_TWO",
        "KAYAH_LI_DIGIT_THREE", "KAYAH_LI_DIGIT_FOUR", "KAYAH_LI_DIGIT_FIVE",
        "KAYAH_LI_DIGIT_SIX", "KAYAH_LI_DIGIT_SEVEN", "KAYAH_LI_DIGIT_EIGHT",
        "KAYAH_LI_DIGIT_NINE">>,
      <<"JAVANESE_DIGIT_ZERO", "JAVANESE_DIGIT_ONE", "JAVANESE_DIGIT_TWO",
        "JAVANESE_DIGIT_THREE", "JAVANESE_DIGIT_FOUR", "JAVANESE_DIGIT_FIVE",
        "JAVANESE_DIGIT_SIX", "JAVANESE_DIGIT_SEVEN", "JAVANESE_DIGIT_EIGHT",
        "JAVANESE_DIGIT_NINE">>,
      <<"MYANMAR_TAI_LAING_DIGIT_ZERO", "MYANMAR_TAI_LAING_DIGIT_ONE",
        "MYANMAR_TAI_LAING_DIGIT_TWO", "MYANMAR_TAI_LAING_DIGIT_THREE",
        "MYANMAR_TAI_LAING_DIGIT_FOUR", "MYANMAR_TAI_LAING_DIGIT_FIVE",
        "MYANMAR_TAI_LAING_DIGIT_SIX", "MYANMAR_TAI_LAING_DIGIT_SEVEN",
        "MYANMAR_TAI_LAING_DIGIT_EIGHT", "MYANMAR_TAI_LAING_DIGIT_NINE">>,
      <<"CHAM_DIGIT_ZERO", "CHAM_DIGIT_ONE", "CHAM_DIGIT_TWO",
        "CHAM_DIGIT_THREE", "CHAM_DIGIT_FOUR", "CHAM_DIGIT_FIVE",
        "CHAM_DIGIT_SIX", "CHAM_DIGIT_SEVEN", "CHAM_DIGIT_EIGHT",
        "CHAM_DIGIT_NINE">>,
      <<"MEETEI_MAYEK_DIGIT_ZERO", "MEETEI_MAYEK_DIGIT_ONE",
        "MEETEI_MAYEK_DIGIT_TWO", "MEETEI_MAYEK_DIGIT_THREE",
        "MEETEI_MAYEK_DIGIT_FOUR", "MEETEI_MAYEK_DIGIT_FIVE",
        "MEETEI_MAYEK_DIGIT_SIX", "MEETEI_MAYEK_DIGIT_SEVEN",
        "MEETEI_MAYEK_DIGIT_EIGHT", "MEETEI_MAYEK_DIGIT_NINE">>,
      <<"FULLWIDTH_DIGIT_ZERO", "FULLWIDTH_DIGIT_ONE", "FULLWIDTH_DIGIT_TWO",
        "FULLWIDTH_DIGIT_THREE", "FULLWIDTH_DIGIT_FOUR",
        "FULLWIDTH_DIGIT_FIVE", "FULLWIDTH_DIGIT_SIX",
        "FULLWIDTH_DIGIT_SEVEN", "FULLWIDTH_DIGIT_EIGHT",
        "FULLWIDTH_DIGIT_NINE">>,
      <<"OSMANYA_DIGIT_ZERO", "OSMANYA_DIGIT_ONE", "OSMANYA_DIGIT_TWO",
        "OSMANYA_DIGIT_THREE", "OSMANYA_DIGIT_FOUR", "OSMANYA_DIGIT_FIVE",
        "OSMANYA_DIGIT_SIX", "OSMANYA_DIGIT_SEVEN", "OSMANYA_DIGIT_EIGHT",
        "OSMANYA_DIGIT_NINE">>,
      <<"HANIFI_ROHINGYA_DIGIT_ZERO", "HANIFI_ROHINGYA_DIGIT_ONE",
        "HANIFI_ROHINGYA_DIGIT_TWO", "HANIFI_ROHINGYA_DIGIT_THREE",
        "HANIFI_ROHINGYA_DIGIT_FOUR", "HANIFI_ROHINGYA_DIGIT_FIVE",
        "HANIFI_ROHINGYA_DIGIT_SIX", "HANIFI_ROHINGYA_DIGIT_SEVEN",
        "HANIFI_ROHINGYA_DIGIT_EIGHT", "HANIFI_ROHINGYA_DIGIT_NINE">>,
      <<"BRAHMI_DIGIT_ZERO", "BRAHMI_DIGIT_ONE", "BRAHMI_DIGIT_TWO",
        "BRAHMI_DIGIT_THREE", "BRAHMI_DIGIT_FOUR", "BRAHMI_DIGIT_FIVE",
        "BRAHMI_DIGIT_SIX", "BRAHMI_DIGIT_SEVEN", "BRAHMI_DIGIT_EIGHT",
        "BRAHMI_DIGIT_NINE">>,
      <<"SORA_SOMPENG_DIGIT_ZERO", "SORA_SOMPENG_DIGIT_ONE",
        "SORA_SOMPENG_DIGIT_TWO", "SORA_SOMPENG_DIGIT_THREE",
        "SORA_SOMPENG_DIGIT_FOUR", "SORA_SOMPENG_DIGIT_FIVE",
        "SORA_SOMPENG_DIGIT_SIX", "SORA_SOMPENG_DIGIT_SEVEN",
        "SORA_SOMPENG_DIGIT_EIGHT", "SORA_SOMPENG_DIGIT_NINE">>,
      <<"CHAKMA_DIGIT_ZERO", "CHAKMA_DIGIT_ONE", "CHAKMA_DIGIT_TWO",
        "CHAKMA_DIGIT_THREE", "CHAKMA_DIGIT_FOUR", "CHAKMA_DIGIT_FIVE",
        "CHAKMA_DIGIT_SIX", "CHAKMA_DIGIT_SEVEN", "CHAKMA_DIGIT_EIGHT",
        "CHAKMA_DIGIT_NINE">>,
      <<"SHARADA_DIGIT_ZERO", "SHARADA_DIGIT_ONE", "SHARADA_DIGIT_TWO",
        "SHARADA_DIGIT_THREE", "SHARADA_DIGIT_FOUR", "SHARADA_DIGIT_FIVE",
        "SHARADA_DIGIT_SIX", "SHARADA_DIGIT_SEVEN", "SHARADA_DIGIT_EIGHT",
        "SHARADA_DIGIT_NINE">>,
      <<"KHUDAWADI_DIGIT_ZERO", "KHUDAWADI_DIGIT_ONE", "KHUDAWADI_DIGIT_TWO",
        "KHUDAWADI_DIGIT_THREE", "KHUDAWADI_DIGIT_FOUR",
        "KHUDAWADI_DIGIT_FIVE", "KHUDAWADI_DIGIT_SIX",
        "KHUDAWADI_DIGIT_SEVEN", "KHUDAWADI_DIGIT_EIGHT",
        "KHUDAWADI_DIGIT_NINE">>,
      <<"NEWA_DIGIT_ZERO", "NEWA_DIGIT_ONE", "NEWA_DIGIT_TWO",
        "NEWA_DIGIT_THREE", "NEWA_DIGIT_FOUR", "NEWA_DIGIT_FIVE",
        "NEWA_DIGIT_SIX", "NEWA_DIGIT_SEVEN", "NEWA_DIGIT_EIGHT",
        "NEWA_DIGIT_NINE">>,
      <<"TIRHUTA_DIGIT_ZERO", "TIRHUTA_DIGIT_ONE", "TIRHUTA_DIGIT_TWO",
        "TIRHUTA_DIGIT_THREE", "TIRHUTA_DIGIT_FOUR", "TIRHUTA_DIGIT_FIVE",
        "TIRHUTA_DIGIT_SIX", "TIRHUTA_DIGIT_SEVEN", "TIRHUTA_DIGIT_EIGHT",
        "TIRHUTA_DIGIT_NINE">>,
      <<"MODI_DIGIT_ZERO", "MODI_DIGIT_ONE", "MODI_DIGIT_TWO",
        "MODI_DIGIT_THREE", "MODI_DIGIT_FOUR", "MODI_DIGIT_FIVE",
        "MODI_DIGIT_SIX", "MODI_DIGIT_SEVEN", "MODI_DIGIT_EIGHT",
        "MODI_DIGIT_NINE">>,
      <<"TAKRI_DIGIT_ZERO", "TAKRI_DIGIT_ONE", "TAKRI_DIGIT_TWO",
        "TAKRI_DIGIT_THREE", "TAKRI_DIGIT_FOUR", "TAKRI_DIGIT_FIVE",
        "TAKRI_DIGIT_SIX", "TAKRI_DIGIT_SEVEN", "TAKRI_DIGIT_EIGHT",
        "TAKRI_DIGIT_NINE">>,
      <<"AHOM_DIGIT_ZERO", "AHOM_DIGIT_ONE", "AHOM_DIGIT_TWO",
        "AHOM_DIGIT_THREE", "AHOM_DIGIT_FOUR", "AHOM_DIGIT_FIVE",
        "AHOM_DIGIT_SIX", "AHOM_DIGIT_SEVEN", "AHOM_DIGIT_EIGHT",
        "AHOM_DIGIT_NINE">>,
      <<"WARANG_CITI_DIGIT_ZERO", "WARANG_CITI_DIGIT_ONE",
        "WARANG_CITI_DIGIT_TWO", "WARANG_CITI_DIGIT_THREE",
        "WARANG_CITI_DIGIT_FOUR", "WARANG_CITI_DIGIT_FIVE",
        "WARANG_CITI_DIGIT_SIX", "WARANG_CITI_DIGIT_SEVEN",
        "WARANG_CITI_DIGIT_EIGHT", "WARANG_CITI_DIGIT_NINE">>,
      <<"DIVES_AKURU_DIGIT_ZERO", "DIVES_AKURU_DIGIT_ONE",
        "DIVES_AKURU_DIGIT_TWO", "DIVES_AKURU_DIGIT_THREE",
        "DIVES_AKURU_DIGIT_FOUR", "DIVES_AKURU_DIGIT_FIVE",
        "DIVES_AKURU_DIGIT_SIX", "DIVES_AKURU_DIGIT_SEVEN",
        "DIVES_AKURU_DIGIT_EIGHT", "DIVES_AKURU_DIGIT_NINE">>,
      <<"BHAIKSUKI_DIGIT_ZERO", "BHAIKSUKI_DIGIT_ONE", "BHAIKSUKI_DIGIT_TWO",
        "BHAIKSUKI_DIGIT_THREE", "BHAIKSUKI_DIGIT_FOUR",
        "BHAIKSUKI_DIGIT_FIVE", "BHAIKSUKI_DIGIT_SIX",
        "BHAIKSUKI_DIGIT_SEVEN", "BHAIKSUKI_DIGIT_EIGHT",
        "BHAIKSUKI_DIGIT_NINE">>,
      <<"MASARAM_GONDI_DIGIT_ZERO", "MASARAM_GONDI_DIGIT_ONE",
        "MASARAM_GONDI_DIGIT_TWO", "MASARAM_GONDI_DIGIT_THREE",
        "MASARAM_GONDI_DIGIT_FOUR", "MASARAM_GONDI_DIGIT_FIVE",
        "MASARAM_GONDI_DIGIT_SIX", "MASARAM_GONDI_DIGIT_SEVEN",
        "MASARAM_GONDI_DIGIT_EIGHT", "MASARAM_GONDI_DIGIT_NINE">>,
      <<"GUNJALA_GONDI_DIGIT_ZERO", "GUNJALA_GONDI_DIGIT_ONE",
        "GUNJALA_GONDI_DIGIT_TWO", "GUNJALA_GONDI_DIGIT_THREE",
        "GUNJALA_GONDI_DIGIT_FOUR", "GUNJALA_GONDI_DIGIT_FIVE",
        "GUNJALA_GONDI_DIGIT_SIX", "GUNJALA_GONDI_DIGIT_SEVEN",
        "GUNJALA_GONDI_DIGIT_EIGHT", "GUNJALA_GONDI_DIGIT_NINE">>,
      <<"MRO_DIGIT_ZERO", "MRO_DIGIT_ONE", "MRO_DIGIT_TWO",
        "MRO_DIGIT_THREE", "MRO_DIGIT_FOUR", "MRO_DIGIT_FIVE",
        "MRO_DIGIT_SIX", "MRO_DIGIT_SEVEN", "MRO_DIGIT_EIGHT",
        "MRO_DIGIT_NINE">>,
      <<"TANGSA_DIGIT_ZERO", "TANGSA_DIGIT_ONE", "TANGSA_DIGIT_TWO",
        "TANGSA_DIGIT_THREE", "TANGSA_DIGIT_FOUR", "TANGSA_DIGIT_FIVE",
        "TANGSA_DIGIT_SIX", "TANGSA_DIGIT_SEVEN", "TANGSA_DIGIT_EIGHT",
        "TANGSA_DIGIT_NINE">>,
      <<"PAHAWH_HMONG_DIGIT_ZERO", "PAHAWH_HMONG_DIGIT_ONE",
        "PAHAWH_HMONG_DIGIT_TWO", "PAHAWH_HMONG_DIGIT_THREE",
        "PAHAWH_HMONG_DIGIT_FOUR", "PAHAWH_HMONG_DIGIT_FIVE",
        "PAHAWH_HMONG_DIGIT_SIX", "PAHAWH_HMONG_DIGIT_SEVEN",
        "PAHAWH_HMONG_DIGIT_EIGHT", "PAHAWH_HMONG_DIGIT_NINE">>,
      <<"MATHEMATICAL_BOLD_DIGIT_ZERO", "MATHEMATICAL_BOLD_DIGIT_ONE",
        "MATHEMATICAL_BOLD_DIGIT_TWO", "MATHEMATICAL_BOLD_DIGIT_THREE",
        "MATHEMATICAL_BOLD_DIGIT_FOUR", "MATHEMATICAL_BOLD_DIGIT_FIVE",
        "MATHEMATICAL_BOLD_DIGIT_SIX", "MATHEMATICAL_BOLD_DIGIT_SEVEN",
        "MATHEMATICAL_BOLD_DIGIT_EIGHT", "MATHEMATICAL_BOLD_DIGIT_NINE">>,
      <<"MATHEMATICAL_DOUBLE_STRUCK_DIGIT_ZERO",
        "MATHEMATICAL_DOUBLE_STRUCK_DIGIT_ONE",
        "MATHEMATICAL_DOUBLE_STRUCK_DIGIT_TWO",
        "MATHEMATICAL_DOUBLE_STRUCK_DIGIT_THREE",
        "MATHEMATICAL_DOUBLE_STRUCK_DIGIT_FOUR",
        "MATHEMATICAL_DOUBLE_STRUCK_DIGIT_FIVE",
        "MATHEMATICAL_DOUBLE_STRUCK_DIGIT_SIX",
        "MATHEMATICAL_DOUBLE_STRUCK_DIGIT_SEVEN",
        "MATHEMATICAL_DOUBLE_STRUCK_DIGIT_EIGHT",
        "MATHEMATICAL_DOUBLE_STRUCK_DIGIT_NINE">>,
      <<"MATHEMATICAL_SANS_SERIF_DIGIT_ZERO",
        "MATHEMATICAL_SANS_SERIF_DIGIT_ONE",
        "MATHEMATICAL_SANS_SERIF_DIGIT_TWO",
        "MATHEMATICAL_SANS_SERIF_DIGIT_THREE",
        "MATHEMATICAL_SANS_SERIF_DIGIT_FOUR",
        "MATHEMATICAL_SANS_SERIF_DIGIT_FIVE",
        "MATHEMATICAL_SANS_SERIF_DIGIT_SIX",
        "MATHEMATICAL_SANS_SERIF_DIGIT_SEVEN",
        "MATHEMATICAL_SANS_SERIF_DIGIT_EIGHT",
        "MATHEMATICAL_SANS_SERIF_DIGIT_NINE">>,
      <<"MATHEMATICAL_SANS_SERIF_BOLD_DIGIT_ZERO",
        "MATHEMATICAL_SANS_SERIF_BOLD_DIGIT_ONE",
        "MATHEMATICAL_SANS_SERIF_BOLD_DIGIT_TWO",
        "MATHEMATICAL_SANS_SERIF_BOLD_DIGIT_THREE",
        "MATHEMATICAL_SANS_SERIF_BOLD_DIGIT_FOUR",
        "MATHEMATICAL_SANS_SERIF_BOLD_DIGIT_FIVE",
        "MATHEMATICAL_SANS_SERIF_BOLD_DIGIT_SIX",
        "MATHEMATICAL_SANS_SERIF_BOLD_DIGIT_SEVEN",
        "MATHEMATICAL_SANS_SERIF_BOLD_DIGIT_EIGHT",
        "MATHEMATICAL_SANS_SERIF_BOLD_DIGIT_NINE">>,
      <<"MATHEMATICAL_MONOSPACE_DIGIT_ZERO",
        "MATHEMATICAL_MONOSPACE_DIGIT_ONE",
        "MATHEMATICAL_MONOSPACE_DIGIT_TWO",
        "MATHEMATICAL_MONOSPACE_DIGIT_THREE",
        "MATHEMATICAL_MONOSPACE_DIGIT_FOUR",
        "MATHEMATICAL_MONOSPACE_DIGIT_FIVE",
        "MATHEMATICAL_MONOSPACE_DIGIT_SIX",
        "MATHEMATICAL_MONOSPACE_DIGIT_SEVEN",
        "MATHEMATICAL_MONOSPACE_DIGIT_EIGHT",
        "MATHEMATICAL_MONOSPACE_DIGIT_NINE">>,
      <<"NYIAKENG_PUACHUE_HMONG_DIGIT_ZERO",
        "NYIAKENG_PUACHUE_HMONG_DIGIT_ONE",
        "NYIAKENG_PUACHUE_HMONG_DIGIT_TWO",
        "NYIAKENG_PUACHUE_HMONG_DIGIT_THREE",
        "NYIAKENG_PUACHUE_HMONG_DIGIT_FOUR",
        "NYIAKENG_PUACHUE_HMONG_DIGIT_FIVE",
        "NYIAKENG_PUACHUE_HMONG_DIGIT_SIX",
        "NYIAKENG_PUACHUE_HMONG_DIGIT_SEVEN",
        "NYIAKENG_PUACHUE_HMONG_DIGIT_EIGHT",
        "NYIAKENG_PUACHUE_HMONG_DIGIT_NINE">>,
      <<"WANCHO_DIGIT_ZERO", "WANCHO_DIGIT_ONE", "WANCHO_DIGIT_TWO",
        "WANCHO_DIGIT_THREE", "WANCHO_DIGIT_FOUR", "WANCHO_DIGIT_FIVE",
        "WANCHO_DIGIT_SIX", "WANCHO_DIGIT_SEVEN", "WANCHO_DIGIT_EIGHT",
        "WANCHO_DIGIT_NINE">>,
      <<"ADLAM_DIGIT_ZERO", "ADLAM_DIGIT_ONE", "ADLAM_DIGIT_TWO",
        "ADLAM_DIGIT_THREE", "ADLAM_DIGIT_FOUR", "ADLAM_DIGIT_FIVE",
        "ADLAM_DIGIT_SIX", "ADLAM_DIGIT_SEVEN", "ADLAM_DIGIT_EIGHT",
        "ADLAM_DIGIT_NINE">>,
      <<"SEGMENTED_DIGIT_ZERO", "SEGMENTED_DIGIT_ONE", "SEGMENTED_DIGIT_TWO",
        "SEGMENTED_DIGIT_THREE", "SEGMENTED_DIGIT_FOUR",
        "SEGMENTED_DIGIT_FIVE", "SEGMENTED_DIGIT_SIX",
        "SEGMENTED_DIGIT_SEVEN", "SEGMENTED_DIGIT_EIGHT",
        "SEGMENTED_DIGIT_NINE">>
    >>

DigitSet ==
    UNION {{DecimalDigits[k][i] : i \in 1..10} : k \in 1..Len(DecimalDigits)}

\* the value of every decimal digit
DigitValue ==
    [c \in DigitSet |->
        (CHOOSE i \in 1..10 : \E k \in 1..Len(DecimalDigits) :
                                  DecimalDigits[k][i] = c) - 1]

\* the lower case of one character: the Kelvin sign is the one character
\* beyond ASCII that becomes an ASCII letter, the dotted capital I the one
\* that becomes two characters
LowerChar(c) ==
    IF \E i \in 1..26 : UpperCase[i] = c
    THEN <<LowerCase[CHOOSE i \in 1..26 : UpperCase[i] = c]>>
    ELSE IF c = "KELVIN_SIGN" THEN <<"k">>
    ELSE IF c = "LATIN_CAPITAL_LETTER_I_WITH_DOT_ABOVE"
         THEN <<"i", "COMBINING_DOT_ABOVE">>
    ELSE <<c>>

\* str.lower()
RECURSIVE Lower(_)
Lower(s) ==
    IF s = <<>> THEN <<>>
    ELSE Lower(SubSeq(s, 1, Len(s) - 1)) \o LowerChar(s[Len(s)])

\* s without its leading and its trailing characters of the set
StripOf(s, chars) ==
    LET keep == {i \in 1..Len(s) : s[i] \notin chars}
    IN  IF keep = {} THEN <<>>
        ELSE LET lo == CHOOSE i \in keep : \A j \in keep : i <= j
                 hi == CHOOSE i \in keep : \A j \in keep : j <= i
             IN  SubSeq(s, lo, hi)

\* str.strip()
Strip(s) == StripOf(s, Whitespace)

\* str.endswith(suffix)
EndsWith(s, suffix) ==
    /\ Len(s) >= Len(suffix)
    /\ SubSeq(s, Len(s) - Len(suffix) + 1, Len(s)) = suffix

RECURSIVE NatToStr(_)
NatToStr(n) ==
    IF n < 10 THEN <<Digits[n + 1]>>
    ELSE NatToStr(n \div 10) \o <<Digits[(n % 10) + 1]>>

IntToStr(n) == IF n < 0 THEN <<"-">> \o NatToStr(0 - n) ELSE NatToStr(n)

Abs(n) == IF n < 0 THEN 0 - n ELSE n

\* the integer part of a float, rounded toward zero; floats are kept in tenths
Trunc(tenths) == IF tenths < 0 THEN 0 - ((0 - tenths) \div 10) ELSE tenths \div 10

(***************************************************************************)
(* A spreadsheet cell as pandas hands it over: a str, an int, a float (in  *)
(* tenths) or the float nan of an empty cell.                              *)
(***************************************************************************)
StrCell(s) == [k |-> "str", s |-> s]
IntCell(n) == [k |-> "int", v |-> n]
FloatCell(t) == [k |-> "float", tenths |-> t]
NanCell == [k |-> "nan"]

\* str(cell)
ToStr(cell) ==
    CASE cell.k = "str" -> cell.s
      [] cell.k = "int" -> IntToStr(cell.v)
      [] cell.k = "float" ->
            (IF cell.tenths < 0 THEN <<"-">> ELSE <<>>)
            \o NatToStr(Abs(cell.tenths) \div 10) \o <<".">>
            \o <<Digits[(Abs(cell.tenths) % 10) + 1]>>
      [] cell.k = "nan" -> <<"n", "a", "n">>

\* a character int() takes for a digit, and the value it takes it for
IsDigit(c) == c \in DigitSet
DigitVal(c) == DigitValue[c]

RECURSIVE DigitsToNat(_)
DigitsToNat(s) ==
    IF s = <<>> THEN 0
    ELSE 10 * DigitsToNat(SubSeq(s, 1, Len(s) - 1)) + DigitVal(s[Len(s)])

\* int(str): the whitespace around the number is dropped, one sign is
\* accepted, then come decimal digits of any script, with single underscores
\* between digits
ParseInt(s) ==
    LET t == StripOf(s, IntWhitespace)
        signed == t # <<>> /\ t[1] \in {"+", "-"}
        body == IF signed THEN Tail(t) ELSE t
        IsPart(i) ==
            \/ IsDigit(body[i])
            \/ /\ body[i] = "_"
               /\ 1 < i /\ i < Len(body)
               /\ IsDigit(body[i - 1]) /\ IsDigit(body[i + 1])
        n == DigitsToNat(SelectSeq(body, IsDigit))
    IN  IF body # <<>> /\ \A i \in 1..Len(body) : IsPart(i)
        THEN [ok |-> TRUE, v |-> IF signed /\ t[1] = "-" THEN 0 - n ELSE n]
        ELSE [ok |-> FALSE, v |-> 0]

\* int(cell): ValueError (ok = FALSE) on nan and on a str that is no integer
ToInt(cell) ==
    CASE cell.k = "int" -> [ok |-> TRUE, v |-> cell.v]
      [] cell.k = "float" -> [ok |-> TRUE, v |-> Trunc(cell.tenths)]
      [] cell.k = "nan" -> [ok |-> FALSE, v |-> 0]
      [] cell.k = "str" -> ParseInt(cell.s)

(***************************************************************************)
(* dict and sorted.                                                        *)
(***************************************************************************)
Item(name, value) == [name |-> name, value |-> value]

DictHas(d, key) == \E i \in 1..Len(d) : d[i].name = key

DictGet(d, key) == d[CHOOSE i \in 1..Len(d) : d[i].name = key].value

\* d[key] = value: a new key goes last, an old key keeps its place
DictSet(d, key, value) ==
    IF DictHas(d, key)
    THEN [i \in 1..Len(d) |-> IF d[i].name = key THEN Item(key, value) ELSE d[i]]
    ELSE Append(d, Item(key, value))

DictKeys(d) == [i \in 1..Len(d) |-> d[i].name]

\* x goes after every element whose key is not greater: the sort is stable
RECURSIVE InsertSorted(_, _, _, _)
InsertSorted(out, outKeys, x, key) ==
    IF out = <<>> THEN <<x>>
    ELSE IF outKeys[Len(out)] <= key THEN Append(out, x)
         ELSE Append(InsertSorted(SubSeq(out, 1, Len(out) - 1),
                                  SubSeq(outKeys, 1, Len(out) - 1), x, key),
                     out[Len(out)])

\* sorted(items, key=...), keys[i] being the key of items[i]
RECURSIVE Sorted(_, _)
Sorted(items, keys) ==
    IF items = <<>> THEN <<>>
    ELSE LET n == Len(items)
             front == Sorted(SubSeq(items, 1, n - 1), SubSeq(keys, 1, n - 1))
             frontKeys == Sorted(SubSeq(keys, 1, n - 1), SubSeq(keys, 1, n - 1))
         IN  InsertSorted(front, frontKeys, items[n], keys[n])

(***************************************************************************)
(* risk_matrix_api.py: the model and the pure part of every handler.       *)
(***************************************************************************)
JI_SHAO_FA_SHENG == <<"ji2", "shao3", "fa1", "sheng1">>
HEN_SHAO_FA_SHENG == <<"hen3", "shao3", "fa1", "sheng1">>
OU_ER_FA_SHENG == <<"ou3", "er3", "fa1", "sheng1">>
YOU_SHI_FA_SHENG == <<"you3", "shi2", "fa1", "sheng1">>
JING_CHANG_FA_SHENG == <<"jing1", "chang2", "fa1", "sheng1">>
QING_WEI == <<"qing1", "wei1">>
QING_DU == <<"qing1", "du4">>
YAN_ZHONG == <<"yan2", "zhong4">>
ZAI_NAN == <<"zai1", "nan4">>
DI_FENG_XIAN == <<"di1", "feng1", "xian3">>
ZHONG_FENG_XIAN == <<"zhong1", "feng1", "xian3">>
GAO_FENG_XIAN == <<"gao1", "feng1", "xian3">>
JI_GAO_FENG_XIAN == <<"ji2", "gao1", "feng1", "xian3">>
WEI_ZHI_FENG_XIAN == <<"wei4", "zhi1", "feng1", "xian3">>

Level(name, threshold) == [name |-> name, threshold |-> threshold]

DEFAULT_RISK_MODEL ==
    [probability |-> <<Item(JI_SHAO_FA_SHENG, 1), Item(HEN_SHAO_FA_SHENG, 2),
                       Item(OU_ER_FA_SHENG, 3), Item(YOU_SHI_FA_SHENG, 4),
                       Item(JING_CHANG_FA_SHENG, 5)>>,
     severity |-> <<Item(QING_WEI, 1), Item(QING_DU, 2), Item(YAN_ZHONG, 3),
                    Item(ZAI_NAN, 4)>>,
     levels |-> <<Level(DI_FENG_XIAN, 4), Level(ZHONG_FENG_XIAN, 9),
                  Level(GAO_FENG_XIAN, 15), Level(JI_GAO_FENG_XIAN, 999)>>]

calculate_risk_value(prob_val, sev_val) == prob_val * sev_val

Thresholds(levels) == [i \in 1..Len(levels) |-> levels[i].threshold]

\* determine_risk_level without the sort of line 31
determine_risk_level_unsorted(levels, risk_value) ==
    LET hits == {i \in 1..Len(levels) : risk_value <= levels[i].threshold}
    IN  IF hits = {} THEN WEI_ZHI_FENG_XIAN
        ELSE levels[CHOOSE i \in hits : \A j \in hits : i <= j].name

\* the first level, in ascending order of threshold, that risk_value does not exceed
determine_risk_level(levels, risk_value) ==
    LET sorted_levels == Sorted(levels, Thresholds(levels))
        hits == {i \in 1..Len(sorted_levels) :
                    risk_value <= sorted_levels[i].threshold}
    IN  IF hits = {} THEN WEI_ZHI_FENG_XIAN
        ELSE sorted_levels[CHOOSE i \in hits : \A j \in hits : i <= j].name

(***************************************************************************)
(* POST /risk-matrix/configure                                             *)
(***************************************************************************)
XLSX == <<".", "x", "l", "s", "x">>
XLS == <<".", "x", "l", "s">>
LEI_XING == <<"lei4", "xing2">>
MING_CHENG == <<"ming2", "cheng1">>
SHU_ZHI == <<"shu4", "zhi2">>
required_columns == <<LEI_XING, MING_CHENG, SHU_ZHI>>
PROBABILITY == <<"p", "r", "o", "b", "a", "b", "i", "l", "i", "t", "y">>
SEVERITY == <<"s", "e", "v", "e", "r", "i", "t", "y">>
LEVEL == <<"l", "e", "v", "e", "l">>

EmptyModel == [probability |-> <<>>, severity |-> <<>>, levels |-> <<>>]

Row(type, name, value) == [type |-> type, name |-> name, value |-> value]

row_type(row) == Strip(Lower(ToStr(row.type)))

\* one pass of the loop body; the name and the value are converted before the
\* type is looked at
AddRow(new_model, row) ==
    LET name == ToStr(row.name)
        value == ToInt(row.value).v
    IN  CASE row_type(row) = PROBABILITY ->
               [new_model EXCEPT !.probability = DictSet(@, name, value)]
          [] row_type(row) = SEVERITY ->
               [new_model EXCEPT !.severity = DictSet(@, name, value)]
          [] row_type(row) = LEVEL ->
               [new_model EXCEPT !.levels = Append(@, Level(name, value))]
          [] OTHER -> new_model

\* the loop over df.iterrows(), the rows taken in order: ok is FALSE once int()
\* has raised, and the rows after that one are not looked at
RECURSIVE LoadRows(_, _)
LoadRows(new_model, rows) ==
    IF rows = <<>> THEN [ok |-> TRUE, model |-> new_model]
    ELSE LET front == LoadRows(new_model, SubSeq(rows, 1, Len(rows) - 1))
             row == rows[Len(rows)]
         IN  IF ~front.ok THEN front
             ELSE IF ~ToInt(row.value).ok THEN [ok |-> FALSE, model |-> front.model]
                  ELSE [ok |-> TRUE, model |-> AddRow(front.model, row)]

model_keys == <<"probability", "severity", "levels">>

\* line 84 looking the levels up under the key of the row type, level
IsMissing_typo(new_model, key) ==
    CASE key = "probability" -> new_model.probability = <<>>
      [] key = "severity" -> new_model.severity = <<>>
      [] key = "levels" -> TRUE

\* not new_model.get(key): an empty dict and an empty list are false
IsMissing(new_model, key) ==
    CASE key = "probability" -> new_model.probability = <<>>
      [] key = "severity" -> new_model.severity = <<>>
      [] key = "levels" -> new_model.levels = <<>>

RECURSIVE Filter(_, _)
Filter(keys, new_model) ==
    IF keys = <<>> THEN <<>>
    ELSE (IF IsMissing(new_model, Head(keys)) THEN <<Head(keys)>> ELSE <<>>)
         \o Filter(Tail(keys), new_model)

missing_types(new_model) == Filter(model_keys, new_model)

HasColumns(file) ==
    \A c \in 1..Len(required_columns) :
        \E i \in 1..Len(file.columns) : file.columns[i] = required_columns[c]

\* the test of line 68
IsExcelName(filename) == EndsWith(filename, XLSX) \/ EndsWith(filename, XLS)

\* the outcome of the handler: the status, the detail and, with 200, the model
\* that becomes current
update_risk_model_from_excel(file) ==
    IF ~IsExcelName(file.filename)
    THEN [status |-> 400, detail |-> "bad_extension", missing |-> <<>>,
          model |-> EmptyModel]
    ELSE IF ~file.readable
    THEN [status |-> 500, detail |-> "unknown_error", missing |-> <<>>,
          model |-> EmptyModel]
    ELSE IF ~HasColumns(file)
    THEN [status |-> 400, detail |-> "missing_columns", missing |-> <<>>,
          model |-> EmptyModel]
    ELSE LET loaded == LoadRows(EmptyModel, file.rows)
         IN  IF ~loaded.ok
             THEN [status |-> 500, detail |-> "unknown_error", missing |-> <<>>,
                   model |-> EmptyModel]
             ELSE IF missing_types(loaded.model) # <<>>
             THEN [status |-> 400, detail |-> "incomplete",
                   missing |-> missing_types(loaded.model), model |-> EmptyModel]
             ELSE [status |-> 200, detail |-> "updated", missing |-> <<>>,
                   model |-> loaded.model]

(***************************************************************************)
(* GET /risk-matrix/levels, POST /risk-matrix/assess,                      *)
(* GET /risk-matrix/visualize                                              *)
(***************************************************************************)
\* get_risk_levels when the model is the same at both of its reads
get_risk_levels(model) ==
    [probability |-> model.probability, severity |-> model.severity]

NoLevel == <<>>

\* line 102 with the severity name tested against prob_levels
unknown_name_pasted(prob_levels, sev_levels, prob_name, sev_name) ==
    ~DictHas(prob_levels, prob_name) \/ ~DictHas(prob_levels, sev_name)

\* the test of line 102
unknown_name(prob_levels, sev_levels, prob_name, sev_name) ==
    ~DictHas(prob_levels, prob_name) \/ ~DictHas(sev_levels, sev_name)

\* lines 102 to 106 on the two maps the handler has read: 400 on an unknown
\* name, with nothing looked up or computed; a lookup that finds no key
\* raises KeyError, which the server answers with 500
risk_value_of(prob_levels, sev_levels, prob_name, sev_name) ==
    IF unknown_name(prob_levels, sev_levels, prob_name, sev_name)
    THEN [status |-> 400, risk_value |-> 0]
    ELSE IF ~DictHas(prob_levels, prob_name) \/ ~DictHas(sev_levels, sev_name)
    THEN [status |-> 500, risk_value |-> 0]
    ELSE [status |-> 200,
          risk_value |-> calculate_risk_value(DictGet(prob_levels, prob_name),
                                              DictGet(sev_levels, sev_name))]

\* assess_risk when the model is the same at each of its reads
assess_risk(model, prob_name, sev_name) ==
    LET r == risk_value_of(model.probability, model.severity, prob_name, sev_name)
    IN  IF r.status # 200
        THEN [status |-> r.status, risk_value |-> 0, risk_level |-> NoLevel]
        ELSE [status |-> 200, risk_value |-> r.risk_value,
              risk_level |-> determine_risk_level(model.levels, r.risk_value)]

Values(d) == [i \in 1..Len(d) |-> d[i].value]

\* the axis without the sort of lines 114 and 115
Axis_unsorted(d) == DictKeys(d)

\* sorted(d.keys(), key=d.get)
Axis(d) == Sorted(DictKeys(d), Values(d))

MatrixCell(prob_map, sev_map, levels, prob_name, sev_name) ==
    LET risk_val == calculate_risk_value(DictGet(prob_map, prob_name),
                                         DictGet(sev_map, sev_name))
    IN  [probability |-> prob_name, severity |-> sev_name, risk_value |-> risk_val,
         risk_level |-> determine_risk_level(levels, risk_val)]

\* get_matrix_visualization when the model is the same at each of its reads
get_matrix_visualization(model) ==
    LET prob_map == model.probability
        sev_map == model.severity
        prob_axis == Axis(prob_map)
        sev_axis == Axis(sev_map)
    IN  [probability_axis |-> prob_axis, severity_axis |-> sev_axis,
         matrix_data |->
            [i \in 1..Len(prob_axis) |->
                [j \in 1..Len(sev_axis) |->
                    MatrixCell(prob_map, sev_map, model.levels,
                               prob_axis[i], sev_axis[j])]]]

(***************************************************************************)
(* The requests of the clients.  A file is what the upload carries: its    *)
(* name, whether openpyxl can read it, its header row and its data rows.   *)
(***************************************************************************)
File(filename, readable, columns, rows) ==
    [filename |-> filename, readable |-> readable, columns |-> columns,
     rows |-> rows]

Workbook(rows) == File(<<"m", ".", "x", "l", "s", "x">>, TRUE, required_columns, rows)

A == StrCell(<<"a">>)
B == StrCell(<<"b">>)
LO == StrCell(<<"l", "o">>)
MID == StrCell(<<"m", "i", "d">>)
HI == StrCell(<<"h", "i">>)

P_A_2 == Row(StrCell(PROBABILITY), A, IntCell(2))
P_B_1 == Row(StrCell(<<" ", "P", "r", "o", "b", "a", "b", "i", "l", "i", "t", "y", " ">>),
             B, IntCell(1))
P_A_1 == Row(StrCell(PROBABILITY), A, FloatCell(15))
S_A_2 == Row(StrCell(<<"S", "E", "V", "E", "R", "I", "T", "Y">>), A, IntCell(2))
S_7_3 == Row(StrCell(SEVERITY), IntCell(7), StrCell(<<"3">>))
L_LO_2 == Row(StrCell(LEVEL), LO, IntCell(2))
L_MID_2 == Row(StrCell(LEVEL), MID, IntCell(2))
L_HI_4 == Row(StrCell(<<"L", "e", "v", "e", "l", "\n">>), HI, IntCell(4))
L_LO_BAD == Row(StrCell(LEVEL), LO, StrCell(<<"a", "b", "c">>))
NOTE == Row(StrCell(<<"n", "o", "t", "e">>), StrCell(<<"x">>), IntCell(1))
NOTE_EMPTY == Row(StrCell(<<"n", "o", "t", "e">>), StrCell(<<"x">>), NanCell)
BLANK == Row(NanCell, NanCell, NanCell)

\* type cells with whitespace of every kind around the word, name and value
\* cells that str() and int() convert
P_A_10 == Row(StrCell(PROBABILITY \o <<"FS">>), A, StrCell(<<"1", "_", "0">>))
S_A_3 == Row(StrCell(<<"IDEOGRAPHIC_SPACE">> \o SEVERITY), A,
             StrCell(<<"FULLWIDTH_DIGIT_THREE">>))
L_LO_30 == Row(StrCell(<<"L", "E", "V", "E", "L", "VT">>), LO,
               StrCell(<<"VT", "+", "3", "0", "NBSP">>))
L_LO_FS == Row(StrCell(LEVEL), LO, StrCell(<<"FS", "3">>))

\* the rows the enumerated uploads are made of
RowAlphabet == {P_A_2, S_7_3, L_HI_4}

\* every upload of at most MaxRows rows over the alphabet
Uploads ==
    {Workbook(rows) : rows \in UNION {[1..n -> RowAlphabet] : n \in 0..MaxRows}}

\* a catalogue of longer and of rejected uploads
TiedLevels == Workbook(<<P_A_2, S_A_2, L_MID_2, L_LO_2>>)
OldFormat == File(<<"m", ".", "x", "l", "s">>, TRUE, required_columns,
                  <<P_B_1, S_7_3, L_HI_4>>)
NotExcel == File(<<"m", ".", "c", "s", "v">>, TRUE, required_columns,
                 <<P_A_2, S_A_2, L_LO_2>>)

SeedFiles ==
    {Workbook(<<P_A_2, P_B_1, S_A_2, S_7_3, L_HI_4, L_LO_2, L_MID_2>>),
     TiedLevels, OldFormat, NotExcel,
     Workbook(<<P_A_2, P_A_1, S_A_2, L_LO_2, L_HI_4>>),
     Workbook(<<P_A_10, S_A_3, L_LO_30>>),
     Workbook(<<P_A_2, S_A_2, L_LO_FS>>),
     Workbook(<<NOTE_EMPTY, P_A_2, S_A_2, L_LO_2>>),
     Workbook(<<BLANK, P_A_2, S_A_2, L_LO_2>>),
     Workbook(<<P_A_2, S_A_2, L_LO_BAD>>),
     Workbook(<<P_A_2, S_A_2, NOTE>>),
     Workbook(<<NOTE, P_A_2, S_A_2, L_LO_2>>),
     File(<<"m", ".", "x", "l", "s">>, FALSE, required_columns,
          <<P_A_2, S_A_2, L_LO_2>>),
     File(<<"m", ".", "x", "l", "s", "x">>, TRUE, <<LEI_XING, MING_CHENG>>,
          <<P_A_2, S_A_2, L_LO_2>>)}

\* the files a client uploads
Files == Uploads \cup SeedFiles

FileNames == {file.filename : file \in Files}

FilesNamed == [filename \in FileNames |-> {file \in Files : file.filename = filename}]

\* names of no model, and names of some uploads
ProbeNames == {<<"a">>, <<"x">>}

KeySet(d) == {d[i].name : i \in 1..Len(d)}

\* a client asks about the names /risk-matrix/levels lists, and about others
ProbabilityNames(model) == KeySet(model.probability) \cup ProbeNames
SeverityNames(model) == KeySet(model.severity) \cup ProbeNames

(***************************************************************************)
(* feng_xian_ju_zhen.py, the console program.                              *)
(***************************************************************************)
PROBABILITY_MAP ==
    <<Item(JI_SHAO_FA_SHENG, 1), Item(HEN_SHAO_FA_SHENG, 2), Item(OU_ER_FA_SHENG, 3),
      Item(YOU_SHI_FA_SHENG, 4), Item(JING_CHANG_FA_SHENG, 5)>>
SEVERITY_MAP ==
    <<Item(QING_WEI, 1), Item(QING_DU, 2), Item(YAN_ZHONG, 3), Item(ZAI_NAN, 4)>>

console_calculate_risk_value(p, s) == p * s

\* the bands with the first bound excluded
console_determine_risk_level_strict(risk_value) ==
    IF risk_value < 4 THEN DI_FENG_XIAN
    ELSE IF 5 <= risk_value /\ risk_value <= 9 THEN ZHONG_FENG_XIAN
    ELSE IF 10 <= risk_value /\ risk_value <= 15 THEN GAO_FENG_XIAN
    ELSE JI_GAO_FENG_XIAN

console_determine_risk_level(risk_value) ==
    IF risk_value <= 4 THEN DI_FENG_XIAN
    ELSE IF 5 <= risk_value /\ risk_value <= 9 THEN ZHONG_FENG_XIAN
    ELSE IF 10 <= risk_value /\ risk_value <= 15 THEN GAO_FENG_XIAN
    ELSE JI_GAO_FENG_XIAN

\* what the user may type: every label, a label with a blank after it, nothing
InputLines ==
    KeySet(PROBABILITY_MAP) \cup KeySet(SEVERITY_MAP)
    \cup {JI_SHAO_FA_SHENG \o <<" ">>, <<>>}

\* the two things the program prints after an input: the invalid message, and
\* the risk value with the risk level
INVALID == [text |-> "shu ru wu xiao"]

ConsoleInit ==
    /\ probability = PROBABILITY_MAP
    /\ severity = SEVERITY_MAP
    /\ pc = "get_probability_level"
    /\ lines = <<>>
    /\ prob = 0
    /\ sev = 0
    /\ printed = <<>>

\* the test of the loop in get_probability_level
IsProbability(level) == DictHas(probability, level)

\* the test of the loop in get_severity_level
IsSeverity(level) == DictHas(severity, level)

\* get_probability_level with an if in place of the while: after the invalid
\* message it returns None
get_probability_level_once ==
    /\ pc = "get_probability_level"
    /\ Len(lines) < MaxLines
    /\ \E level \in InputLines :
          /\ lines' = Append(lines, level)
          /\ IF IsProbability(level)
             THEN /\ prob' = DictGet(probability, level)
                  /\ printed' = printed
             ELSE /\ prob' = 0
                  /\ printed' = Append(printed, INVALID)
          /\ pc' = "get_severity_level"
    /\ UNCHANGED <<probability, severity, sev, apiVars, concVars>>

\* one input() of get_probability_level: return the rank, or say invalid and loop
get_probability_level ==
    /\ pc = "get_probability_level"
    /\ Len(lines) < MaxLines
    /\ \E level \in InputLines :
          /\ lines' = Append(lines, level)
          /\ IF IsProbability(level)
             THEN /\ prob' = DictGet(probability, level)
                  /\ pc' = "get_severity_level"
                  /\ printed' = printed
             ELSE /\ printed' = Append(printed, INVALID)
                  /\ UNCHANGED <<prob, pc>>
    /\ UNCHANGED <<probability, severity, sev, apiVars, concVars>>

\* the rest of main, once get_severity_level has returned
Result(prob_val, sev_val) ==
    LET risk_value == console_calculate_risk_value(prob_val, sev_val)
    IN  [text |-> "feng xian zhi", risk_value |-> risk_value,
         risk_level |-> console_determine_risk_level(risk_value)]

\* one input() of get_severity_level; on a label main goes on to print the result
get_severity_level ==
    /\ pc = "get_severity_level"
    /\ Len(lines) < MaxLines
    /\ \E level \in InputLines :
          /\ lines' = Append(lines, level)
          /\ IF IsSeverity(level)
             THEN /\ sev' = DictGet(severity, level)
                  /\ pc' = "done"
                  /\ printed' = Append(printed, Result(prob, DictGet(severity, level)))
             ELSE /\ printed' = Append(printed, INVALID)
                  /\ UNCHANGED <<sev, pc>>
    /\ UNCHANGED <<probability, severity, prob, apiVars, concVars>>

\* input() at the end of the input: EOFError ends the program
EndOfInput ==
    /\ pc \in {"get_probability_level", "get_severity_level"}
    /\ pc' = "EOFError"
    /\ UNCHANGED <<probability, severity, lines, prob, sev, printed, apiVars, concVars>>

(***************************************************************************)
(* The uploads.  update_risk_model_from_excel is a coroutine of the event  *)
(* loop: it tests the name of the file, then awaits file.read() at line    *)
(* 72, where the event loop may run other requests, and runs from the      *)
(* bytes to its response without another await.  uploading is the bag of   *)
(* the requests suspended at line 72, each known by the name of its file;  *)
(* the content of the file is what file.read() returns.  resp is the last  *)
(* response to an upload, with the request it answers and the model that   *)
(* was current when file.read() returned.                                  *)
(***************************************************************************)
\* the request of the worker thread, with its locals
NewTask(op, prob_name, sev_name) ==
    [pc |-> "start", op |-> op, probability |-> prob_name, severity |-> sev_name,
     prob_levels |-> <<>>, sev_levels |-> <<>>, levels_read |-> {},
     risk_value |-> 0, cells |-> <<>>, response |-> <<>>]

Idle == [NewTask("none", <<>>, <<>>) EXCEPT !.pc = "idle"]

ConcInit ==
    /\ task = Idle
    /\ history = <<>>
    /\ configured = 0

Init ==
    /\ current_risk_model = DEFAULT_RISK_MODEL
    /\ resp = [op |-> "none"]
    /\ uploading = EmptyBag
    /\ ConsoleInit
    /\ ConcInit

\* the outcome of the handler on every file
FileOutcome == [file \in Files |-> update_risk_model_from_excel(file)]

Outcome(file) == FileOutcome[file]

\* the response to the upload of file, its outcome being r
Response(file, r) ==
    [op |-> "configure", file |-> file, before |-> current_risk_model,
     status |-> r.status, detail |-> r.detail, missing |-> r.missing]

\* lines 68 and 69: a file of another name is turned down at once
Reject(file) ==
    /\ ~IsExcelName(file.filename)
    /\ resp' = Response(file, Outcome(file))
    /\ UNCHANGED <<current_risk_model, uploading>>

\* lines 68 to 72: the coroutine gets to file.read() and is suspended there
Suspend(filename) ==
    /\ IsExcelName(filename)
    /\ BagCardinality(uploading) < MaxUploads
    /\ uploading' = uploading (+) SetToBag({filename})
    /\ UNCHANGED <<current_risk_model, resp>>

\* the model after the handler, the assignment of line 88 moved before the
\* check of line 85
Install_Early(file, r) ==
    current_risk_model' =
        IF r.status = 200 THEN r.model
        ELSE IF r.detail = "incomplete" THEN LoadRows(EmptyModel, file.rows).model
             ELSE current_risk_model

\* the model after the handler, new_model of line 77 starting from the
\* current model
Install_Merge(file, r) ==
    current_risk_model' =
        IF r.status = 200 THEN LoadRows(current_risk_model, file.rows).model
        ELSE current_risk_model

\* the model after the handler: line 88 is reached with status 200 only
Install(file, r) ==
    current_risk_model' = IF r.status = 200 THEN r.model ELSE current_risk_model

\* lines 72 to 92: file.read() returns the content of the file, and the
\* coroutine runs to its response
Load(file) ==
    LET r == Outcome(file)
    IN  /\ BagIn(file.filename, uploading)
        /\ uploading' = uploading (-) SetToBag({file.filename})
        /\ Install(file, r)
        /\ resp' = Response(file, r)

\* a configure request arrives
ConfigureArrive ==
    /\ \E filename \in FileNames :
          \/ Suspend(filename)
          \/ \E file \in FilesNamed[filename] : Reject(file)
    /\ UNCHANGED <<consoleVars, concVars>>

\* a suspended configure request goes on
ConfigureResume ==
    /\ \E filename \in BagToSet(uploading) :
          \E file \in FilesNamed[filename] : Load(file)
    /\ UNCHANGED <<consoleVars, concVars>>

Next == ConfigureArrive \/ ConfigureResume

Spec == Init /\ [][Next]_vars

(***************************************************************************)
(* The console program alone.                                              *)
(***************************************************************************)
NextConsole == get_probability_level \/ get_severity_level \/ EndOfInput

SpecConsole == Init /\ [][NextConsole]_vars

(***************************************************************************)
(* The whole API.  get_risk_levels, assess_risk and                        *)
(* get_matrix_visualization are plain functions, which the server runs on  *)
(* worker threads, while the coroutine of the uploads runs on the event    *)
(* loop: the assignment of line 88 may fall between any two reads of the   *)
(* global current_risk_model that a worker makes.  task is the request of  *)
(* one worker, with its locals and, once it is done, its response; history *)
(* lists the models that have been current while the request ran.          *)
(***************************************************************************)
ConcFiles ==
    {Workbook(<<P_A_2, P_B_1, S_A_2, S_7_3, L_HI_4, L_LO_2, L_MID_2>>),
     TiedLevels, NotExcel}

InFlight == task.pc \notin {"idle", "done"}

\* a configure request arrives
ConcArrive ==
    /\ configured < MaxConfigures
    /\ \E file \in ConcFiles : Suspend(file.filename) \/ Reject(file)
    /\ configured' = configured + 1
    /\ UNCHANGED <<task, history, consoleVars>>

\* a suspended configure request goes on
ConcResume ==
    /\ \E file \in ConcFiles :
          /\ Load(file)
          /\ history' = IF InFlight /\ Outcome(file).status = 200
                        THEN Append(history, Outcome(file).model) ELSE history
    /\ UNCHANGED <<task, configured, consoleVars>>

StartLevels ==
    /\ ~InFlight
    /\ task' = NewTask("levels", <<>>, <<>>)
    /\ history' = <<current_risk_model>>
    /\ UNCHANGED <<current_risk_model, configured, resp, uploading, consoleVars>>

\* line 96, the first read of the global
LevelsReadProbability ==
    /\ task.op = "levels" /\ task.pc = "start"
    /\ task' = [task EXCEPT !.prob_levels = current_risk_model.probability,
                            !.pc = "line96"]
    /\ UNCHANGED <<current_risk_model, history, configured, resp, uploading, consoleVars>>

\* line 96, the second read of the global and the return
LevelsReadSeverity ==
    /\ task.op = "levels" /\ task.pc = "line96"
    /\ task' = [task EXCEPT !.sev_levels = current_risk_model.severity,
                            !.pc = "done",
                            !.response = [probability |-> task.prob_levels,
                                          severity |-> current_risk_model.severity]]
    /\ UNCHANGED <<current_risk_model, history, configured, resp, uploading, consoleVars>>

StartAssess ==
    /\ ~InFlight
    /\ \E prob_name \in ProbabilityNames(current_risk_model),
          sev_name \in SeverityNames(current_risk_model) :
          task' = NewTask("assess", prob_name, sev_name)
    /\ history' = <<current_risk_model>>
    /\ UNCHANGED <<current_risk_model, configured, resp, uploading, consoleVars>>

\* line 100
AssessReadProbability ==
    /\ task.op = "assess" /\ task.pc = "start"
    /\ task' = [task EXCEPT !.prob_levels = current_risk_model.probability,
                            !.pc = "line101"]
    /\ UNCHANGED <<current_risk_model, history, configured, resp, uploading, consoleVars>>

\* lines 101 to 106
AssessReadSeverity ==
    /\ task.op = "assess" /\ task.pc = "line101"
    /\ LET sev_levels == current_risk_model.severity
           r == risk_value_of(task.prob_levels, sev_levels, task.probability,
                              task.severity)
       IN  IF r.status # 200
           THEN task' = [task EXCEPT !.sev_levels = sev_levels, !.pc = "done",
                            !.response = [status |-> r.status, risk_value |-> 0,
                                          risk_level |-> NoLevel]]
           ELSE task' = [task EXCEPT !.sev_levels = sev_levels, !.pc = "line107",
                            !.risk_value = r.risk_value]
    /\ UNCHANGED <<current_risk_model, history, configured, resp, uploading, consoleVars>>

\* lines 107 and 108, determine_risk_level reading the global at line 31
AssessDetermineLevel ==
    /\ task.op = "assess" /\ task.pc = "line107"
    /\ task' = [task EXCEPT
                  !.levels_read = {current_risk_model.levels}, !.pc = "done",
                  !.response = [status |-> 200, risk_value |-> task.risk_value,
                                risk_level |-> determine_risk_level(
                                    current_risk_model.levels, task.risk_value)]]
    /\ UNCHANGED <<current_risk_model, history, configured, resp, uploading, consoleVars>>

StartVisualize ==
    /\ ~InFlight
    /\ task' = NewTask("visualize", <<>>, <<>>)
    /\ history' = <<current_risk_model>>
    /\ UNCHANGED <<current_risk_model, configured, resp, uploading, consoleVars>>

\* line 112
VisualizeReadProbability ==
    /\ task.op = "visualize" /\ task.pc = "start"
    /\ task' = [task EXCEPT !.prob_levels = current_risk_model.probability,
                            !.pc = "line113"]
    /\ UNCHANGED <<current_risk_model, history, configured, resp, uploading, consoleVars>>

\* lines 113 to 116
VisualizeReadSeverity ==
    /\ task.op = "visualize" /\ task.pc = "line113"
    /\ task' = [task EXCEPT !.sev_levels = current_risk_model.severity,
                            !.pc = "line117"]
    /\ UNCHANGED <<current_risk_model, history, configured, resp, uploading, consoleVars>>

\* lines 120 to 123 for the next cell, in row order; determine_risk_level reads
\* the global anew for every cell
VisualizeCell ==
    /\ task.op = "visualize" /\ task.pc = "line117"
    /\ Len(task.cells) < Len(task.prob_levels) * Len(task.sev_levels)
    /\ LET k == Len(task.cells)
           prob_name == Axis(task.prob_levels)[(k \div Len(task.sev_levels)) + 1]
           sev_name == Axis(task.sev_levels)[(k % Len(task.sev_levels)) + 1]
       IN  task' = [task EXCEPT
                      !.levels_read = @ \cup {current_risk_model.levels},
                      !.cells = Append(@, MatrixCell(task.prob_levels, task.sev_levels,
                                                     current_risk_model.levels,
                                                     prob_name, sev_name))]
    /\ UNCHANGED <<current_risk_model, history, configured, resp, uploading, consoleVars>>

\* line 125
VisualizeReturn ==
    /\ task.op = "visualize" /\ task.pc = "line117"
    /\ Len(task.cells) = Len(task.prob_levels) * Len(task.sev_levels)
    /\ task' = [task EXCEPT !.pc = "done",
                  !.response =
                     [probability_axis |-> Axis(task.prob_levels),
                      severity_axis |-> Axis(task.sev_levels),
                      matrix_data |->
                         [i \in 1..Len(task.prob_levels) |->
                            [j \in 1..Len(task.sev_levels) |->
                               task.cells[(i - 1) * Len(task.sev_levels) + j]]]]]
    /\ UNCHANGED <<current_risk_model, history, configured, resp, uploading, consoleVars>>

NextConc ==
    \/ ConcArrive \/ ConcResume
    \/ StartLevels \/ LevelsReadProbability \/ LevelsReadSeverity
    \/ StartAssess \/ AssessReadProbability \/ AssessReadSeverity
    \/ AssessDetermineLevel
    \/ StartVisualize \/ VisualizeReadProbability \/ VisualizeReadSeverity
    \/ VisualizeCell \/ VisualizeReturn

SpecConc == Init /\ [][NextConc]_vars

(***************************************************************************)
(* What the claims speak of, said without the code's operators.            *)
(***************************************************************************)
\* the risk values asked about: around every threshold and product of the models
RiskValues == (0 - 2)..21 \cup {998, 999, 1000}

\* the rank a map gives a name
Rank(d, name) == CHOOSE v \in {d[i].value : i \in 1..Len(d)} :
                    \E i \in 1..Len(d) : d[i] = Item(name, v)

\* the positions of the levels that risk_value does not exceed
Qualifying(levels, risk_value) ==
    {i \in 1..Len(levels) : risk_value <= levels[i].threshold}

\* the positions, among those, of the levels with the smallest threshold
Smallest(levels, risk_value) ==
    {i \in Qualifying(levels, risk_value) :
        \A j \in Qualifying(levels, risk_value) :
            levels[i].threshold <= levels[j].threshold}

\* the band of a value: the earliest inserted level of the smallest qualifying
\* threshold, and the sentinel when no level qualifies
Band(levels, risk_value) ==
    IF Qualifying(levels, risk_value) = {} THEN WEI_ZHI_FENG_XIAN
    ELSE levels[CHOOSE i \in Smallest(levels, risk_value) :
                    \A j \in Smallest(levels, risk_value) : i <= j].name

\* C1 as stated: determine_risk_level(v) is the name of the level with the
\* smallest threshold t such that v <= t, whichever order the levels were
\* inserted in (so of every level that has that threshold), and the sentinel
\* when v exceeds every threshold.
C1_AnyOrder ==
    \A v \in RiskValues :
        LET levels == current_risk_model.levels
        IN  IF Qualifying(levels, v) = {}
            THEN determine_risk_level(levels, v) = WEI_ZHI_FENG_XIAN
            ELSE \A i \in Smallest(levels, v) :
                    determine_risk_level(levels, v) = levels[i].name

\* C1 as amended: determine_risk_level(v) is the name of the level with the
\* smallest threshold t such that v <= t, the bound included, and of the one
\* inserted first when several levels have that threshold; it is the sentinel
\* when v exceeds every threshold.
C1_FirstOfSmallest ==
    \A v \in RiskValues :
        LET levels == current_risk_model.levels
        IN  /\ determine_risk_level(levels, v) = Band(levels, v)
            /\ \A i \in 1..Len(levels) :
                  (v = levels[i].threshold) =>
                      \E j \in 1..Len(levels) :
                          /\ levels[j].threshold = v
                          /\ determine_risk_level(levels, v) = levels[j].name

\* an assess answered with a value that is a threshold of two levels of
\* different names, the levels not being in ascending order
C1_Witness ==
    /\ task.op = "assess" /\ task.pc = "done" /\ task.response.status = 200
    /\ \E levels \in task.levels_read :
          /\ \E i, j \in 1..Len(levels) :
                /\ i < j
                /\ levels[i].threshold = task.response.risk_value
                /\ levels[j].threshold = task.response.risk_value
                /\ levels[i].name # levels[j].name
                /\ task.response.risk_level = levels[i].name
          /\ \E i, j \in 1..Len(levels) :
                i < j /\ levels[i].threshold > levels[j].threshold

(***************************************************************************)
(* The uploaded rows, bucket by bucket.                                    *)
(***************************************************************************)
\* the positions of the rows of one type
RowsOf(rows, type) == {i \in 1..Len(rows) : row_type(rows[i]) = type}

\* the names the rows of one type carry
NamesOf(rows, type) == {ToStr(rows[i].name) : i \in RowsOf(rows, type)}

\* the value of the last row of one type that carries the name
LastValue(rows, type, name) ==
    LET at == {i \in RowsOf(rows, type) : ToStr(rows[i].name) = name}
    IN  ToInt(rows[CHOOSE i \in at : \A j \in at : j <= i].value).v

\* the name to rank map is that of the rows of the type
IsMapOf(d, rows, type) ==
    /\ KeySet(d) = NamesOf(rows, type)
    /\ Len(d) = Cardinality(NamesOf(rows, type))
    /\ \A name \in KeySet(d) : Rank(d, name) = LastValue(rows, type, name)

IsLevelRow(row) == row_type(row) = LEVEL

\* the levels are the level rows, one for one and in their order
AreLevelsOf(levels, rows) ==
    LET level_rows == SelectSeq(rows, IsLevelRow)
    IN  /\ Len(levels) = Len(level_rows)
        /\ \A i \in 1..Len(levels) :
              levels[i] = Level(ToStr(level_rows[i].name),
                                ToInt(level_rows[i].value).v)

\* C2: a configure request that ends in an error of any kind leaves the
\* current model as it was before the handler answered it (turned down by its
\* name, or when file.read() returned), so what levels, assess and visualize
\* answer afterwards is what they answered before, and none of the names of
\* the rejected upload has come into the model.
C2_ErrorKeepsModel ==
    (resp.op = "configure" /\ resp.status # 200) =>
        /\ current_risk_model = resp.before
        /\ get_risk_levels(current_risk_model) = get_risk_levels(resp.before)
        /\ \A name \in NamesOf(resp.file.rows, PROBABILITY)
                         \ KeySet(resp.before.probability) :
              ~DictHas(current_risk_model.probability, name)
        /\ \A name \in NamesOf(resp.file.rows, SEVERITY)
                         \ KeySet(resp.before.severity) :
              ~DictHas(current_risk_model.severity, name)

\* an upload rejected as incomplete, with probability rows the model before
\* did not have, that model being an uploaded one
C2_Witness ==
    /\ resp.op = "configure" /\ resp.status = 400 /\ resp.detail = "incomplete"
    /\ resp.before # DEFAULT_RISK_MODEL
    /\ NamesOf(resp.file.rows, PROBABILITY) \ KeySet(resp.before.probability) # {}

\* C4: after a configure request that succeeds the current model is the one
\* built from the uploaded rows and nothing else: no name and no level of the
\* model before that the upload does not carry is left, levels returns the
\* uploaded maps only, and assess rejects a name only the model before had.
C4_WholesaleReplace ==
    (resp.op = "configure" /\ resp.status = 200) =>
        LET rows == resp.file.rows
        IN  /\ IsMapOf(current_risk_model.probability, rows, PROBABILITY)
            /\ IsMapOf(current_risk_model.severity, rows, SEVERITY)
            /\ AreLevelsOf(current_risk_model.levels, rows)
            /\ IsMapOf(get_risk_levels(current_risk_model).probability, rows,
                       PROBABILITY)
            /\ IsMapOf(get_risk_levels(current_risk_model).severity, rows, SEVERITY)
            /\ \A name \in KeySet(resp.before.probability)
                             \ NamesOf(rows, PROBABILITY) :
                  \A sev_name \in KeySet(current_risk_model.severity) :
                      assess_risk(current_risk_model, name, sev_name).status = 400
            /\ \A name \in KeySet(resp.before.severity) \ NamesOf(rows, SEVERITY) :
                  \A prob_name \in KeySet(current_risk_model.probability) :
                      assess_risk(current_risk_model, prob_name, name).status = 400

\* an upload accepted over an uploaded model that had a probability name, a
\* severity name and more levels than the upload carries
C4_Witness ==
    /\ resp.op = "configure" /\ resp.status = 200
    /\ resp.before # DEFAULT_RISK_MODEL
    /\ KeySet(resp.before.probability) \ KeySet(current_risk_model.probability) # {}
    /\ KeySet(resp.before.severity) \ KeySet(current_risk_model.severity) # {}
    /\ Len(resp.before.levels) > Len(current_risk_model.levels)

\* the request ran without the model being replaced
Undisturbed == Len(history) = 1

\* C5: assess answers 400 exactly when the probability name is not in the
\* probability map it read as the current one or the severity name is not in
\* the severity map it read as the current one, and then nothing has been
\* looked up, multiplied or scanned; otherwise it answers 200 with the product
\* of the two ranks and the level of that product under the thresholds it
\* read as the current ones.
C5_AssessContract ==
    (task.op = "assess" /\ task.pc = "done") =>
        LET r == task.response
            unknown == \/ task.probability \notin KeySet(task.prob_levels)
                       \/ task.severity \notin KeySet(task.sev_levels)
        IN  /\ (r.status = 400) <=> unknown
            /\ r.status \in {200, 400}
            /\ \E i \in 1..Len(history) : task.prob_levels = history[i].probability
            /\ \E i \in 1..Len(history) : task.sev_levels = history[i].severity
            /\ unknown =>
                  /\ r.risk_value = 0 /\ r.risk_level = NoLevel
                  /\ task.risk_value = 0 /\ task.levels_read = {}
            /\ ~unknown =>
                  /\ r.risk_value = Rank(task.prob_levels, task.probability)
                                    * Rank(task.sev_levels, task.severity)
                  /\ \E i \in 1..Len(history) :
                        task.levels_read = {history[i].levels}
                  /\ \A levels \in task.levels_read :
                        r.risk_level = Band(levels, r.risk_value)
            /\ Undisturbed =>
                  r = assess_risk(history[1], task.probability, task.severity)

\* a 400 for a severity name the uploaded model lacks, asked with a
\* probability name it has, the severity map having been replaced after the
\* probability map was read
C5_Witness ==
    /\ task.op = "assess" /\ task.pc = "done" /\ task.response.status = 400
    /\ task.probability \in KeySet(task.prob_levels)
    /\ task.severity \notin KeySet(task.sev_levels)
    /\ task.prob_levels = DEFAULT_RISK_MODEL.probability
    /\ task.sev_levels # DEFAULT_RISK_MODEL.severity

\* C6: visualize lists every probability name and every severity name of
\* the maps it read once, in ascending order of rank, and gives one row per
\* probability name and one cell per severity name in it, the cell of row i
\* and column j carrying the two axis names, the product of their ranks and
\* the level of that product; on a model that stays the same it is the
\* answer of every call on that model.
C6_VisualizeContract ==
    (task.op = "visualize" /\ task.pc = "done") =>
        LET v == task.response
            pm == task.prob_levels
            sm == task.sev_levels
            IsAxisOf(axis, d) ==
                /\ Len(axis) = Len(d)
                /\ {axis[i] : i \in 1..Len(axis)} = KeySet(d)
                /\ \A i, j \in 1..Len(axis) : i # j => axis[i] # axis[j]
                /\ \A i, j \in 1..Len(axis) :
                      i < j => Rank(d, axis[i]) <= Rank(d, axis[j])
        IN  /\ IsAxisOf(v.probability_axis, pm)
            /\ IsAxisOf(v.severity_axis, sm)
            /\ Len(v.matrix_data) = Len(pm)
            /\ \A i \in 1..Len(v.matrix_data) :
                  /\ Len(v.matrix_data[i]) = Len(sm)
                  /\ \A j \in 1..Len(v.matrix_data[i]) :
                        LET cell == v.matrix_data[i][j]
                        IN  /\ cell.probability = v.probability_axis[i]
                            /\ cell.severity = v.severity_axis[j]
                            /\ cell.risk_value = Rank(pm, cell.probability)
                                                 * Rank(sm, cell.severity)
                            /\ \E levels \in task.levels_read :
                                  cell.risk_level = Band(levels, cell.risk_value)
            /\ Undisturbed =>
                  /\ pm = history[1].probability /\ sm = history[1].severity
                  /\ task.levels_read = {history[1].levels}
                  /\ v = get_matrix_visualization(history[1])

\* a matrix of an uploaded model whose probability names were not inserted in
\* the order of their ranks, with a cell beyond every threshold
C6_Witness ==
    /\ task.op = "visualize" /\ task.pc = "done" /\ Undisturbed
    /\ task.response.probability_axis # DictKeys(task.prob_levels)
    /\ Len(task.response.severity_axis) > 1
    /\ \E i \in 1..Len(task.response.matrix_data) :
          \E j \in 1..Len(task.response.matrix_data[i]) :
              task.response.matrix_data[i][j].risk_level = WEI_ZHI_FENG_XIAN

\* the rows can all be converted, and the file got as far as the rows
WellFormed(file) ==
    /\ IsExcelName(file.filename)
    /\ file.readable
    /\ HasColumns(file)
    /\ \A i \in 1..Len(file.rows) : ToInt(file.rows[i].value).ok

\* the buckets that received no row, in the order the message names them
EmptyBuckets(rows) ==
    (IF RowsOf(rows, PROBABILITY) = {} THEN <<"probability">> ELSE <<>>)
    \o (IF RowsOf(rows, SEVERITY) = {} THEN <<"severity">> ELSE <<>>)
    \o (IF RowsOf(rows, LEVEL) = {} THEN <<"levels">> ELSE <<>>)

\* C7: an upload of well-formed rows fails as incomplete, with 400, exactly
\* when a bucket received no row, and the message names the empty buckets,
\* all of them and no other.
C7_IncompleteNamesEmptyBuckets ==
    (resp.op = "configure" /\ WellFormed(resp.file)) =>
        LET empty == EmptyBuckets(resp.file.rows)
        IN  /\ (resp.status = 400 /\ resp.detail = "incomplete") <=> (empty # <<>>)
            /\ resp.missing = empty
            /\ (empty = <<>>) => resp.status = 200

\* an upload with probability and severity rows and a row of no type, no
\* level row: the message names levels alone
C7_Witness ==
    /\ resp.op = "configure" /\ WellFormed(resp.file)
    /\ resp.status = 400 /\ resp.detail = "incomplete"
    /\ resp.missing = <<"levels">>
    /\ Len(resp.file.rows) = 3

IsKnownRow(row) == row_type(row) \in {PROBABILITY, SEVERITY, LEVEL}

\* C8: a row whose type is none of probability, severity, level is ignored:
\* the load of a file ends as the load of the same file without those rows,
\* with the same status, the same message and the same model.
C8_UnknownRowsIgnored ==
    (resp.op = "configure") =>
        LET without == [resp.file EXCEPT !.rows = SelectSeq(@, IsKnownRow)]
            r == update_risk_model_from_excel(without)
        IN  /\ resp.status = r.status
            /\ resp.detail = r.detail
            /\ resp.missing = r.missing
            /\ (r.status = 200) => current_risk_model = r.model

\* C3: a response of assess or visualize that ran while configure replaced
\* the model is computed from one model: the probability ranks, the severity
\* ranks and the levels it used are those of one of the models that were
\* current during the request.
C3_SingleModel ==
    (task.pc = "done" /\ task.op \in {"assess", "visualize"}) =>
        \E i \in 1..Len(history) :
            /\ task.prob_levels = history[i].probability
            /\ task.sev_levels = history[i].severity
            /\ \A levels \in task.levels_read : levels = history[i].levels

(***************************************************************************)
(* The default configuration, as the specification lists it.               *)
(***************************************************************************)
DefaultProbabilityRanks ==
    <<JI_SHAO_FA_SHENG, HEN_SHAO_FA_SHENG, OU_ER_FA_SHENG, YOU_SHI_FA_SHENG,
      JING_CHANG_FA_SHENG>>
DefaultSeverityRanks == <<QING_WEI, QING_DU, YAN_ZHONG, ZAI_NAN>>

\* low up to 4, medium up to 9, high up to 15, extreme up to 999
DefaultBand(risk_value) ==
    CASE risk_value <= 4 -> DI_FENG_XIAN
      [] 4 < risk_value /\ risk_value <= 9 -> ZHONG_FENG_XIAN
      [] 9 < risk_value /\ risk_value <= 15 -> GAO_FENG_XIAN
      [] 15 < risk_value /\ risk_value <= 999 -> JI_GAO_FENG_XIAN

\* the labels entered at the two prompts that were accepted
EnteredProbability == CHOOSE name \in KeySet(PROBABILITY_MAP) :
                         Rank(PROBABILITY_MAP, name) = prob
EnteredSeverity == CHOOSE name \in KeySet(SEVERITY_MAP) :
                      Rank(SEVERITY_MAP, name) = sev

\* C9: for each of the 20 pairs of the default configuration (ranks 1..5 and
\* 1..4), once the console has printed its result for the pair, that result
\* and the answer of the API's assess under the default model are both the
\* product of the two ranks and the inclusive band of that product.
C9_DefaultAgreement ==
    (pc = "done") =>
        LET api == assess_risk(current_risk_model, EnteredProbability,
                               EnteredSeverity)
            out == printed[Len(printed)]
        IN  /\ prob \in 1..5 /\ sev \in 1..4
            /\ DefaultProbabilityRanks[prob] = EnteredProbability
            /\ DefaultSeverityRanks[sev] = EnteredSeverity
            /\ api.status = 200
            /\ api.risk_value = prob * sev
            /\ api.risk_level = DefaultBand(prob * sev)
            /\ out.risk_value = prob * sev
            /\ out.risk_level = DefaultBand(prob * sev)
            /\ out.risk_value = api.risk_value
            /\ out.risk_level = api.risk_level

\* the console has printed the result of a pair whose product is the bound 9
\* of the medium band, the API still on its default model
C9_Witness ==
    /\ pc = "done"
    /\ current_risk_model = DEFAULT_RISK_MODEL
    /\ prob * sev = 9
    /\ printed[Len(printed)].risk_value = 9
    /\ printed[Len(printed)].risk_level = ZHONG_FENG_XIAN

\* the position of the first line that is a probability label
FirstProbability ==
    CHOOSE i \in 1..Len(lines) :
        /\ lines[i] \in KeySet(PROBABILITY_MAP)
        /\ \A j \in 1..(i - 1) : lines[j] \notin KeySet(PROBABILITY_MAP)

IsResult(out) == out.text # INVALID.text

\* C10: get_probability_level asks again after every line that is no key of
\* probability and returns the rank of the first line that is one, and
\* get_severity_level does the same with severity on the lines after it; main
\* prints one result, after both labels, and an invalid line gives the
\* invalid message alone and leaves the maps as they are.
C10_RepromptUntilValid ==
    /\ probability = PROBABILITY_MAP /\ severity = SEVERITY_MAP
    /\ (\E i \in 1..Len(printed) : IsResult(printed[i])) => pc = "done"
    /\ (pc = "get_probability_level") =>
          /\ \A i \in 1..Len(lines) : lines[i] \notin KeySet(PROBABILITY_MAP)
          /\ printed = [i \in 1..Len(lines) |-> INVALID]
    /\ (pc \in {"get_severity_level", "done"}) =>
          /\ \E i \in 1..Len(lines) : lines[i] \in KeySet(PROBABILITY_MAP)
          /\ prob = Rank(PROBABILITY_MAP, lines[FirstProbability])
    /\ (pc = "get_severity_level") =>
          /\ \A i \in (FirstProbability + 1)..Len(lines) :
                lines[i] \notin KeySet(SEVERITY_MAP)
          /\ printed = [i \in 1..(Len(lines) - 1) |-> INVALID]
    /\ (pc = "done") =>
          /\ Len(lines) > FirstProbability
          /\ \A i \in (FirstProbability + 1)..(Len(lines) - 1) :
                lines[i] \notin KeySet(SEVERITY_MAP)
          /\ lines[Len(lines)] \in KeySet(SEVERITY_MAP)
          /\ sev = Rank(SEVERITY_MAP, lines[Len(lines)])
          /\ Len(printed) = Len(lines) - 1
          /\ \A i \in 1..(Len(printed) - 1) : printed[i] = INVALID
          /\ printed[Len(printed)] = Result(prob, sev)

\* a result printed after a severity label at the probability prompt and a
\* probability label at the severity prompt were turned down
C10_Witness ==
    /\ pc = "done"
    /\ Len(lines) = 4
    /\ lines[1] \in KeySet(SEVERITY_MAP)
    /\ lines[3] \in KeySet(PROBABILITY_MAP)
    /\ IsResult(printed[3])

====
